---------------------------- MODULE Spec2Model ----------------------------
(***************************************************************************)
(* mdformat (src/src/main.rs): the Markdown layout normaliser.             *)
(*                                                                         *)
(* A text is a sequence of characters; a character is a one-token string.  *)
(* The token "han" stands for one Han-script character, "bt" for a backtick. *)
(* The pipeline of format_markdown is a state machine: split the text into *)
(* lines, run the loop of format_lines one line per step, run the loop of  *)
(* format_lists one line per step, join, format the tables, end with a     *)
(* newline.  Reformat feeds the output back in (format(format(d))).        *)
(* SpecSpans and SpecCjk run format_text alone on one line, pass by pass;  *)
(* SpecMain runs main: read, format_markdown, create and write, each of    *)
(* which but the formatting can fail.                                      *)
(***************************************************************************)
EXTENDS Integers, Sequences, FiniteSets, TLC

VARIABLES
    text,             \* format_markdown's argument
    pass,             \* 1: first run of format_markdown, 2: run on its own output
    first_out,        \* the output of the first run (<<>> until pass 2)
    pc,               \* position in format_markdown
    lines,            \* main.rs:58 the trimmed lines
    ret,              \* format_lines: ret (also format_lists' argument)
    prev_line_state,  \* format_lines: prev_line_state
    line_states,      \* main.rs:146 the debug log: cur_state of every line read
    origin,           \* per entry of ret: the index of the input line it holds, 0 for a pushed blank
    result,           \* format_lists: result
    list_stack,       \* format_lists: list_stack
    unwrap_failed,    \* a last().unwrap() of format_lists met an empty stack
    out,              \* format_markdown: ret (the text being assembled)
    args_indent,      \* CliArgs.indent
    args_output,      \* CliArgs.output: "Some" (a file) or "None" (stdout)
    out_file,         \* the output target: whether it exists, and the bytes in it
    out_before,       \* the output target as it was when the process started
    exit_code         \* main: "none" (format_markdown is called on its own),
                      \* "running", "ok" (exit 0), "failed" (exit 1)

vars == <<text, pass, first_out, pc, lines, ret, prev_line_state, line_states,
          origin, result, list_stack, unwrap_failed, out, args_indent,
          args_output, out_file, out_before, exit_code>>

\* the state of the process around format_markdown
io == <<args_output, out_file, out_before, exit_code>>

----------------------------------------------------------------------------
(* Bounds of the model *)

\* lines per document, specification Spec (every line kind, two runs)
MaxLines == 3
\* lines per document, specification SpecBlocks (blank runs around blocks)
MaxBlockLines == 4
\* lines per document, specification SpecLists (list items)
MaxListLines == 4

----------------------------------------------------------------------------
(* Characters *)

NL == "\n"
SP == " "
BT == "bt"
Han == "han"

Digits == <<"0", "1", "2", "3", "4", "5", "6", "7", "8", "9">>

\* \s of the regexes, char::is_whitespace of trim / trim_end
IsWs(c) == c \in {SP, NL}
\* \d
IsDigit(c) == \E d \in 1..10 : Digits[d] = c
\* [a-zA-Z0-9]
IsAsciiAlnum(c) == IsDigit(c) \/ c \in {"a", "b", "c", "x"}
\* \p{sc=Han}
IsHan(c) == c = Han

Drop(s, n) == SubSeq(s, n + 1, Len(s))
Take(s, n) == SubSeq(s, 1, n)

RECURSIVE Spaces(_)
Spaces(n) == IF n <= 0 THEN <<>> ELSE <<SP>> \o Spaces(n - 1)

\* the number of leading whitespace characters (a greedy whitespace run)
RECURSIVE LeadingWs(_)
LeadingWs(s) == IF s = <<>> \/ ~IsWs(Head(s)) THEN 0 ELSE 1 + LeadingWs(Tail(s))

\* the number of trailing whitespace characters
RECURSIVE TrailingWs(_)
TrailingWs(s) ==
    IF s = <<>> \/ ~IsWs(s[Len(s)]) THEN 0 ELSE 1 + TrailingWs(Take(s, Len(s) - 1))

\* the number of leading digits (a greedy digit run)
RECURSIVE DigitRun(_)
DigitRun(s) == IF s = <<>> \/ ~IsDigit(Head(s)) THEN 0 ELSE 1 + DigitRun(Tail(s))

\* format!("{}", n) of a usize
RECURSIVE ToDecimal(_)
ToDecimal(n) == IF n < 10 THEN <<Digits[n + 1]>>
                ELSE ToDecimal(n \div 10) \o <<Digits[(n % 10) + 1]>>

\* str::starts_with
StartsWith(s, p) == Len(s) >= Len(p) /\ Take(s, Len(p)) = p

Fence == <<BT, BT, BT>>

----------------------------------------------------------------------------
(* The line splitter, main.rs:58-62 *)

\* str::trim
Trim(s) == LET a == LeadingWs(s)
           IN  IF a = Len(s) THEN <<>>
               ELSE SubSeq(s, a + 1, Len(s) - TrailingWs(s))

\* str::trim_end
TrimEnd(s) == Take(s, Len(s) - TrailingWs(s))

\* the length of the text before its first NL
RECURSIVE LineLen(_)
LineLen(s) == IF s = <<>> \/ Head(s) = NL THEN 0 ELSE 1 + LineLen(Tail(s))

\* str::lines: split at NL; a final NL ends the last line and opens no other
RECURSIVE StrLines(_)
StrLines(s) ==
    IF s = <<>> THEN <<>>
    ELSE LET n == LineLen(s)
         IN  <<Take(s, n)>> \o StrLines(Drop(s, n + 1))

\* text.trim().lines().map(|line| line.trim_end())
SplitText(t) == LET ls == StrLines(Trim(t))
                IN  [k \in 1..Len(ls) |-> TrimEnd(ls[k])]

\* Vec<String>::join("\n")
RECURSIVE JoinNL(_)
JoinNL(ls) == IF ls = <<>> THEN <<>>
              ELSE IF Len(ls) = 1 THEN ls[1]
              ELSE ls[1] \o <<NL>> \o JoinNL(Tail(ls))

----------------------------------------------------------------------------
\* RE_LIST_ITEM, main.rs:244 and 328: optional whitespace (group 1), then one of
\* the markers star, plus, minus (group 2) or digits (group 3) and a dot, then
\* whitespace, then the rest of the line (group 4).

\* group 2 present: the marker after the indentation is one of * + -
CapUnordered(line) ==
    LET r == Drop(line, LeadingWs(line))
    IN  r # <<>> /\ Head(r) \in {"*", "+", "-"}

\* group 3 present: digits followed by a dot
CapOrdered(line) ==
    LET r == Drop(line, LeadingWs(line))
        n == DigitRun(r)
    IN  n > 0 /\ Len(r) > n /\ r[n + 1] = "."

\* the text after the marker
AfterMarker(line) ==
    LET r == Drop(line, LeadingWs(line))
    IN  IF CapUnordered(line) THEN Tail(r)
        ELSE IF CapOrdered(line) THEN Drop(r, DigitRun(r) + 1)
        ELSE <<>>

\* RE_LIST_ITEM.is_match(line)
IsListItem(line) ==
    (CapUnordered(line) \/ CapOrdered(line)) /\ LeadingWs(AfterMarker(line)) > 0

\* caps.get(1).unwrap().as_str().len()
CapIndent(line) == LeadingWs(line)

\* mutant of CapContent: only one whitespace character after the marker is dropped
CapContent_OneSpace(line) == Tail(AfterMarker(line))
\* caps.get(4).unwrap().as_str()
CapContent(line) == LET a == AfterMarker(line) IN Drop(a, LeadingWs(a))

----------------------------------------------------------------------------
(* The inline spacer, main.rs:222-235 and 330-364 *)

\* a variant with the first alternative of RE_CJK only: a Han character
\* followed by an ASCII letter or digit
RECURSIVE add_spaces_between_cjk_ascii_HanFirst(_)
add_spaces_between_cjk_ascii_HanFirst(s) ==
    IF Len(s) < 2 THEN s
    ELSE IF IsHan(s[1]) /\ IsAsciiAlnum(s[2])
         THEN <<s[1], SP, s[2]>> \o add_spaces_between_cjk_ascii_HanFirst(Drop(s, 2))
         ELSE <<s[1]>> \o add_spaces_between_cjk_ascii_HanFirst(Tail(s))

\* RE_CJK.replace_all: matches are found left to right and do not overlap
RECURSIVE add_spaces_between_cjk_ascii(_)
add_spaces_between_cjk_ascii(s) ==
    IF Len(s) < 2 THEN s
    ELSE IF \/ IsHan(s[1]) /\ IsAsciiAlnum(s[2])
            \/ IsAsciiAlnum(s[1]) /\ IsHan(s[2])
         THEN <<s[1], SP, s[2]>> \o add_spaces_between_cjk_ascii(Drop(s, 2))
         ELSE <<s[1]>> \o add_spaces_between_cjk_ascii(Tail(s))

\* the position of the first backtick after position k of s, 0 when there is none
RECURSIVE ClosePos(_, _)
ClosePos(s, k) == IF k >= Len(s) THEN 0
                  ELSE IF s[k + 1] = BT THEN k + 1
                  ELSE ClosePos(s, k + 1)

\* a variant of the class that leaves out whitespace only
IsEdgeChar_AnyButWs(c) == ~IsWs(c)
\* an edge character of RE_CODE_SPAN: neither a backtick nor whitespace
IsEdgeChar(c) == c # BT /\ ~IsWs(c)

\* RE_CODE_SPAN.replace_all: an optional edge character, a backtick, any
\* characters but backticks, a backtick, an optional edge character
RECURSIVE add_space_around_code_spans(_)
add_space_around_code_spans(s) ==
    IF s = <<>> THEN <<>>
    ELSE LET withBefore == IsEdgeChar(s[1]) /\ Len(s) >= 2 /\ s[2] = BT
                           /\ ClosePos(s, 2) # 0
             open   == IF withBefore THEN 2 ELSE 1
             close  == IF s[open] = BT THEN ClosePos(s, open) ELSE 0
         IN  IF close = 0
             THEN <<s[1]>> \o add_space_around_code_spans(Tail(s))
             ELSE LET withAfter == close < Len(s) /\ IsEdgeChar(s[close + 1])
                      code  == SubSeq(s, open, close)
                      last  == IF withAfter THEN close + 1 ELSE close
                  IN  (IF withBefore THEN <<s[1], SP>> ELSE <<>>)
                      \o code
                      \o (IF withAfter THEN <<SP, s[close + 1]>> ELSE <<>>)
                      \o add_space_around_code_spans(Drop(s, last))

format_text(t) ==
    add_space_around_code_spans(add_space_around_code_spans(
        add_spaces_between_cjk_ascii(add_spaces_between_cjk_ascii(t))))

format_line(line) == format_text(line)

----------------------------------------------------------------------------
(* The classifier, main.rs:109-137 *)

\* a variant that looks for an empty line before it looks at the fence
get_line_state_EmptyFirst(line, prev_state) ==
    IF line = <<>> THEN "Empty"
    ELSE IF prev_state \in {"CodeStart", "Code"}
    THEN IF StartsWith(line, Fence) THEN "CodeEnd" ELSE "Code"
    ELSE IF IsListItem(line) THEN "List"
    ELSE IF StartsWith(line, Fence) THEN "CodeStart"
    ELSE IF Head(line) = "#" THEN "Title"
    ELSE IF Head(line) = ">" THEN "Blockquote"
    ELSE IF Head(line) = "|" THEN "Table"
    ELSE "Normal"

get_line_state(line, prev_state) ==
    IF prev_state \in {"CodeStart", "Code"}
    THEN IF StartsWith(line, Fence) THEN "CodeEnd" ELSE "Code"
    ELSE IF line = <<>> THEN "Empty"
    ELSE IF IsListItem(line) THEN "List"
    ELSE IF StartsWith(line, Fence) THEN "CodeStart"
    ELSE IF Head(line) = "#" THEN "Title"
    ELSE IF Head(line) = ">" THEN "Blockquote"
    ELSE IF Head(line) = "|" THEN "Table"
    ELSE "Normal"

----------------------------------------------------------------------------
(* The block formatter, one iteration of the loop of format_lines,         *)
(* main.rs:143-218                                                         *)

\* a variant that pushes no empty line between a table and a paragraph
NormalBlank_NoTable(prev) == prev \in {"CodeEnd", "Blockquote"}
\* main.rs:151-153
NormalBlank(prev) == prev \in {"Table", "CodeEnd", "Blockquote"}
\* main.rs:163
CodeStartBlank(prev) == prev # "Empty"
\* main.rs:170
BlockquoteBlank(prev) == prev # "Empty" /\ prev # "Blockquote"
\* mutant of TableBlank: a blank line also before a table that follows one
TableBlank_AfterEmpty(prev) == prev # "Table"
\* main.rs:180
TableBlank(prev) == prev # "Table" /\ prev # "Empty"
\* mutant of EmptyBlank: every empty line is pushed
EmptyBlank_Always(prev) == TRUE
\* main.rs:189
EmptyBlank(prev) == prev # "Empty"
\* mutant of TitleBlank: no blank line between a list and a heading
TitleBlank_NoList(prev) == prev \in {"Table", "CodeEnd", "Blockquote"}
\* main.rs:195-198
TitleBlank(prev) == prev \in {"Table", "CodeEnd", "List", "Blockquote"}
\* a variant that pushes the empty line also after an empty line
ListBlank_AfterEmpty(prev) == prev # "List"
\* main.rs:210
ListBlank(prev) == prev # "List" /\ prev # "Empty"

\* whether the arm of cur pushes an empty line before the line
BlankBefore(cur, prev) ==
    CASE cur = "Normal"     -> NormalBlank(prev)
      [] cur = "CodeStart"  -> CodeStartBlank(prev)
      [] cur = "Blockquote" -> BlockquoteBlank(prev)
      [] cur \in {"Code", "CodeEnd"} -> FALSE
      [] cur = "Table"      -> TableBlank(prev)
      [] cur = "Empty"      -> EmptyBlank(prev)
      [] cur = "Title"      -> TitleBlank(prev)
      [] cur = "List"       -> ListBlank(prev)

\* what the arm pushes for the line itself (nothing for an Empty line)
Emitted(cur, line) ==
    CASE cur \in {"Normal", "Blockquote", "Table", "Title", "List"} -> <<format_line(line)>>
      [] cur \in {"CodeStart", "Code", "CodeEnd"} -> <<line>>
      [] cur = "Empty" -> <<>>

\* what the arm pushes after the line
BlankAfter(cur) == cur = "Title"

\* prev_line_state of the next iteration
NextPrevState(cur) == IF cur = "Title" THEN "Empty" ELSE cur

----------------------------------------------------------------------------
(* The list renumberer, one iteration of the loop of format_lists,         *)
(* main.rs:251-317                                                         *)

Top(stack) == stack[Len(stack)]
Pop(stack) == Take(stack, Len(stack) - 1)

\* main.rs:264-266
RECURSIVE PopLevels(_, _)
PopLevels(stack, indent) ==
    IF stack # <<>> /\ indent < Top(stack).indent
    THEN PopLevels(Pop(stack), indent)
    ELSE stack

\* mutant of EntersSubList: the is_empty test is missing
EntersSubList_NoEmptyTest(stack, indent) ==
    stack # <<>> /\ indent > Top(stack).indent
\* main.rs:268
EntersSubList(stack, indent) == stack = <<>> \/ indent > Top(stack).indent

\* main.rs:270-275
NewIndent(stack, indent) == IF stack = <<>> THEN 0 ELSE indent

\* main.rs:281-295, the item is at the level of the top of the stack; on an
\* empty stack last_mut().unwrap() panics and the stack stays empty
SameLevel(stack, type, indent) ==
    IF stack = <<>> THEN stack
    ELSE LET last == Top(stack)
         IN  IF last.list_type # type
             THEN Append(Pop(stack),
                         [list_type |-> type, indent |-> indent, counter |-> 1])
             ELSE IF last.list_type = "Ordered"
             THEN [stack EXCEPT ![Len(stack)].counter = @ + 1]
             ELSE stack

\* a variant in which a new level goes on counting from its parent level
AdjustStack_InheritCounter(stack, type, indent) ==
    LET s == PopLevels(stack, indent)
    IN  IF EntersSubList(s, indent)
        THEN Append(s, [list_type |-> type, indent |-> NewIndent(s, indent),
                        counter |-> IF s = <<>> THEN 1 ELSE Top(s).counter + 1])
        ELSE SameLevel(s, type, indent)

\* main.rs:263-295: the stack after a list item of this type and indentation
AdjustStack(stack, type, indent) ==
    LET s == PopLevels(stack, indent)
    IN  IF EntersSubList(s, indent)
        THEN Append(s, [list_type |-> type, indent |-> NewIndent(s, indent),
                        counter |-> 1])
        ELSE SameLevel(s, type, indent)

\* whether a last().unwrap() or last_mut().unwrap() of main.rs:283 or 298 meets
\* an empty stack (those of 264 and 268 follow an is_empty test)
UnwrapFails(stack, type, indent) ==
    LET s == PopLevels(stack, indent)
    IN  \/ ~EntersSubList(s, indent) /\ s = <<>>
        \/ AdjustStack(stack, type, indent) = <<>>

\* mutant of PrefixIndent: the source indentation of the level is kept
PrefixIndent_Source(stack) == Spaces(Top(stack).indent)
\* main.rs:299-303
PrefixIndent(stack) == Spaces(IF Len(stack) > 1 THEN 2 * (Len(stack) - 1) ELSE 0)

\* main.rs:305-310
NewLine(stack, content) ==
    IF Top(stack).list_type = "Unordered"
    THEN PrefixIndent(stack) \o <<"-", SP>> \o content
    ELSE PrefixIndent(stack) \o ToDecimal(Top(stack).counter) \o <<".", SP>> \o content

\* main.rs:257-261
CurrentListType(line) == IF CapUnordered(line) THEN "Unordered" ELSE "Ordered"

\* mutant of ClearedStack: the stack survives a line that is no list item
ClearedStack_Kept(stack) == stack
\* main.rs:312-314
ClearedStack(stack) == <<>>

----------------------------------------------------------------------------
(* The table formatter, markdown_table_formatter::format_tables: an        *)
(* external collaborator.  It realigns the cells inside table lines; the   *)
(* model keeps the text as it is.                                          *)

format_tables(t) == t

\* mutant of EndWithNewline: the newline is pushed without the test
EndWithNewline_Always(t) == Append(t, NL)
\* main.rs:76-78
EndWithNewline(t) == IF t # <<>> /\ t[Len(t)] = NL THEN t ELSE Append(t, NL)

----------------------------------------------------------------------------
(* Input documents *)

Str_text     == <<"a">>
Str_dashcode == <<"-", BT, "a", BT>>
Str_title    == <<"#", SP, "a">>
Str_table    == <<"|", "a", "|">>
Str_quote    == <<">", SP, "a">>
Str_star     == <<"*", SP, "a">>
Str_num      == <<"3", ".", SP, "a">>
Str_num_in   == <<SP, SP, "2", ".", SP, "a">>
Str_blank    == <<SP>>
Str_cjk      == <<"a", Han, "1", SP>>

\* every kind of line
Pool == {Str_text, Str_dashcode, Str_title, Str_table, Fence, Str_quote,
         Str_star, Str_num_in, <<>>, Str_cjk}

\* blocks, text and blank lines
BlockPool == {Str_text, Str_table, Fence, Str_quote, Str_title, <<>>, Str_blank}

\* list items of three indentations, both marker kinds, and interruptions
ListPool == {Str_star, Str_num, Str_num_in,
             <<SP, SP, "+", SP, SP, "a">>,
             <<SP, SP, SP, SP, "1", "2", ".", SP, "b">>,
             <<SP, SP, SP, SP, "-", SP, "b">>,
             Str_text}

\* a target that does not exist, and one that holds the bytes d
NoFile == [exists |-> FALSE, data |-> <<>>]
FileOf(d) == [exists |-> TRUE, data |-> d]

\* format_markdown or format_text is called on its own
NoProcess ==
    /\ args_output = "None"
    /\ out_file = FileOf(<<>>)
    /\ out_before = FileOf(<<>>)
    /\ exit_code = "none"

Docs(pool, n) == UNION {[1..k -> pool] : k \in 0..n}

InitWith(pool, n, indents) ==
    /\ \E d \in Docs(pool, n) : text = JoinNL(d)
    /\ args_indent \in indents
    /\ pass = 1
    /\ first_out = <<>>
    /\ pc = "split"
    /\ lines = <<>>
    /\ ret = <<>>
    /\ prev_line_state = "Empty"
    /\ line_states = <<>>
    /\ origin = <<>>
    /\ result = <<>>
    /\ list_stack = <<>>
    /\ unwrap_failed = FALSE
    /\ out = <<>>
    /\ NoProcess

\* CliArgs.indent: default_value_t = 4
DefaultIndent == 4

Init == InitWith(Pool, MaxLines, {DefaultIndent})
InitBlocks == InitWith(BlockPool, MaxBlockLines, {DefaultIndent})
InitLists == InitWith(ListPool, MaxListLines, {2, DefaultIndent})

----------------------------------------------------------------------------
(* Actions *)

\* a variant in which format_lines starts as if a paragraph line came before
InitialPrevState_Normal == "Normal"
\* main.rs:141: let mut prev_line_state = LineState::Empty
InitialPrevState == "Empty"

\* main.rs:58-62 and the locals of format_lines (140-141)
Split ==
    /\ pc = "split"
    /\ lines' = SplitText(text)
    /\ ret' = <<>>
    /\ prev_line_state' = InitialPrevState
    /\ line_states' = <<>>
    /\ origin' = <<>>
    /\ pc' = "lines"
    /\ UNCHANGED <<text, pass, first_out, result, list_stack, unwrap_failed, out,
                   args_indent, io>>

\* main.rs:143-218, one line
FormatLinesStep ==
    /\ pc = "lines"
    /\ Len(line_states) < Len(lines)
    /\ LET i    == Len(line_states) + 1
           line == lines[i]
           cur  == get_line_state(line, prev_line_state)
           pre  == IF BlankBefore(cur, prev_line_state) THEN <<<<>>>> ELSE <<>>
           body == Emitted(cur, line)
           post == IF BlankAfter(cur) THEN <<<<>>>> ELSE <<>>
       IN  /\ ret' = ret \o pre \o body \o post
           /\ origin' = origin \o [k \in 1..Len(pre) |-> 0]
                               \o [k \in 1..Len(body) |-> i]
                               \o [k \in 1..Len(post) |-> 0]
           /\ line_states' = Append(line_states, cur)
           /\ prev_line_state' = NextPrevState(cur)
    /\ UNCHANGED <<text, pass, first_out, pc, lines, result, list_stack,
                   unwrap_failed, out, args_indent, io>>

\* main.rs:219 and 248-249: format_lines returns, format_lists starts
FormatLinesReturn ==
    /\ pc = "lines"
    /\ Len(line_states) = Len(lines)
    /\ result' = <<>>
    /\ list_stack' = <<>>
    /\ pc' = "lists"
    /\ UNCHANGED <<text, pass, first_out, lines, ret, prev_line_state, line_states,
                   origin, unwrap_failed, out, args_indent, io>>

\* main.rs:251-317, one line
FormatListsStep ==
    /\ pc = "lists"
    /\ Len(result) < Len(ret)
    /\ LET line == ret[Len(result) + 1]
       IN  IF IsListItem(line)
           THEN LET stack == AdjustStack(list_stack, CurrentListType(line),
                                         CapIndent(line))
                IN  /\ list_stack' = stack
                    /\ unwrap_failed' = (unwrap_failed \/
                            UnwrapFails(list_stack, CurrentListType(line),
                                        CapIndent(line)))
                    /\ result' = Append(result,
                                        IF stack = <<>> THEN line
                                        ELSE NewLine(stack, CapContent(line)))
           ELSE /\ list_stack' = ClearedStack(list_stack)
                /\ result' = Append(result, line)
                /\ UNCHANGED unwrap_failed
    /\ UNCHANGED <<text, pass, first_out, pc, lines, ret, prev_line_state,
                   line_states, origin, out, args_indent, io>>

\* main.rs:319 and 70
Join ==
    /\ pc = "lists"
    /\ Len(result) = Len(ret)
    /\ out' = JoinNL(result)
    /\ pc' = "tables"
    /\ UNCHANGED <<text, pass, first_out, lines, ret, prev_line_state, line_states,
                   origin, result, list_stack, unwrap_failed, args_indent, io>>

\* main.rs:73
FormatTables ==
    /\ pc = "tables"
    /\ out' = format_tables(out)
    /\ pc' = "newline"
    /\ UNCHANGED <<text, pass, first_out, lines, ret, prev_line_state, line_states,
                   origin, result, list_stack, unwrap_failed, args_indent, io>>

\* main.rs:76-80
EndNewline ==
    /\ pc = "newline"
    /\ out' = EndWithNewline(out)
    /\ pc' = "done"
    /\ UNCHANGED <<text, pass, first_out, lines, ret, prev_line_state, line_states,
                   origin, result, list_stack, unwrap_failed, args_indent, io>>

\* format_markdown is called again, on its own output; the locals of the first
\* call are gone
Reformat ==
    /\ pc = "done"
    /\ pass = 1
    /\ text' = out
    /\ first_out' = out
    /\ pass' = 2
    /\ pc' = "split"
    /\ lines' = <<>>
    /\ ret' = <<>>
    /\ prev_line_state' = "Empty"
    /\ line_states' = <<>>
    /\ origin' = <<>>
    /\ result' = <<>>
    /\ list_stack' = <<>>
    /\ out' = <<>>
    /\ UNCHANGED <<unwrap_failed, args_indent, io>>

NextOnce ==
    \/ Split
    \/ FormatLinesStep
    \/ FormatLinesReturn
    \/ FormatListsStep
    \/ Join
    \/ FormatTables
    \/ EndNewline

Next == NextOnce \/ Reformat

\* format_markdown, then format_markdown of its output
Spec == Init /\ [][Next]_vars
\* one run of format_markdown on documents of blocks and blank lines
SpecBlocks == InitBlocks /\ [][NextOnce]_vars
\* one run of format_markdown on documents of list items
SpecLists == InitLists /\ [][NextOnce]_vars

----------------------------------------------------------------------------
(* Reading the output *)

\* the lines of the output text
OutLines == StrLines(out)

\* the output line k holds the input line of this classification
OutState(k) == IF k <= Len(origin) /\ origin[k] # 0 THEN line_states[origin[k]]
               ELSE "Blank"

\* the classification of the input line before the one the output line k holds
PrevInputState(k) == IF k <= Len(origin) /\ origin[k] > 1
                     THEN line_states[origin[k] - 1] ELSE "None"

\* the entry of ret that holds the input line i
Pos(i) == CHOOSE k \in 1..Len(origin) : origin[k] = i

Finished == pc = "done"

\* the text has no table: no pipe is in it
NoTable(t) == \A k \in 1..Len(t) : t[k] # "|"

----------------------------------------------------------------------------
(* C1: idempotence *)

\* C1: formatting the output of format_markdown again gives the same text
\* (for texts without tables, where the table formatter changes nothing).
C1_Idempotent ==
    (Finished /\ pass = 2 /\ NoTable(text)) => out = first_out

----------------------------------------------------------------------------
(* C2: heading isolation *)

\* C2 as claimed: in the output every heading line is preceded by a blank line
\* unless it is the first line, and is followed by a blank line (the line after
\* the last heading of a text that ends with it is the end of the output).
C2_HeadingIsolation ==
    Finished =>
        \A k \in 1..Len(OutLines) :
            OutState(k) = "Title" =>
                /\ k = 1 \/ OutLines[k - 1] = <<>>
                /\ k = Len(OutLines) \/ OutLines[k + 1] = <<>>

\* C2 as amended: in the output every heading line is followed by a blank line
\* (or the end of the output), and is preceded by a blank line unless it is the
\* first line or the input line before it is a Normal line, which stays right
\* above it.
C2_HeadingIsolationAmended ==
    Finished =>
        \A k \in 1..Len(OutLines) :
            OutState(k) = "Title" =>
                /\ k = 1 \/ (OutLines[k - 1] = <<>> <=> PrevInputState(k) # "Normal")
                /\ PrevInputState(k) = "Normal" => OutState(k - 1) = "Normal"
                /\ k = Len(OutLines) \/ OutLines[k + 1] = <<>>

\* C2 witness: a heading right after a list item and before more text has got
\* a blank line on both sides.
C2_Witness ==
    /\ Finished
    /\ \E k \in 2..(Len(OutLines) - 1) :
           /\ OutState(k) = "Title"
           /\ PrevInputState(k) = "List"
           /\ OutLines[k - 1] = <<>>
           /\ OutLines[k + 1] = <<>>

----------------------------------------------------------------------------
(* C3: blank-line collapse *)

\* the input lines i < j are not blank and all lines between them (at least one) are
BlankRun(i, j) ==
    /\ i + 1 < j
    /\ lines[i] # <<>> /\ lines[j] # <<>>
    /\ \A m \in (i + 1)..(j - 1) : lines[m] = <<>>

\* exactly one blank line separates the input lines i and j in the output
OneBlankBetween(i, j) ==
    /\ Pos(j) = Pos(i) + 2
    /\ OutLines[Pos(i) + 1] = <<>>

\* C3 as claimed: every run of blank lines between two non-blank lines is one
\* blank line in the output.
C3_BlankCollapse ==
    Finished =>
        \A i \in 1..Len(lines) : \A j \in 1..Len(lines) :
            BlankRun(i, j) => OneBlankBetween(i, j)

\* C3 as amended: every run of blank lines between two non-blank lines outside a
\* fenced code block is one blank line in the output.
C3_BlankCollapseAmended ==
    Finished =>
        \A i \in 1..Len(lines) : \A j \in 1..Len(lines) :
            (BlankRun(i, j) /\ line_states[j] \notin {"Code", "CodeEnd"})
                => OneBlankBetween(i, j)

\* C3 witness: a run of two blank lines between text outside a fence was collapsed.
C3_Witness ==
    /\ Finished
    /\ \E i \in 1..Len(lines) : \E j \in 1..Len(lines) :
           /\ BlankRun(i, j) /\ j >= i + 3
           /\ line_states[j] \notin {"Code", "CodeEnd"}
           /\ OneBlankBetween(i, j)

----------------------------------------------------------------------------
(* C4: isolation of tables, code blocks and blockquotes from Normal text *)

\* the input lines i < j have only Empty lines (or none) between them
Adjacent(i, j) ==
    i < j /\ \A m \in (i + 1)..(j - 1) : line_states[m] = "Empty"

\* a Normal line before the first line of a block, or after the last line of one
BlockMeetsNormal(i, j) ==
    \/ line_states[i] = "Normal" /\ line_states[j] \in {"Table", "CodeStart", "Blockquote"}
    \/ line_states[i] \in {"Table", "CodeEnd", "Blockquote"} /\ line_states[j] = "Normal"

\* C4: in the output of format_lines exactly one blank line separates a table,
\* a fenced code block or a blockquote from Normal text next to it, however many
\* blank lines (none, one, several) the input has there.
C4_BlockIsolation ==
    \A i \in 1..Len(line_states) : \A j \in 1..Len(line_states) :
        (Adjacent(i, j) /\ BlockMeetsNormal(i, j)) =>
            /\ Pos(j) = Pos(i) + 2
            /\ ret[Pos(i) + 1] = <<>>

\* C4 witness: format_lines has returned and text met a block across two blank
\* lines of the input.
C4_Witness ==
    /\ pc = "lists"
    /\ \E i \in 1..Len(line_states) : \E j \in 1..Len(line_states) :
           /\ j = i + 3
           /\ Adjacent(i, j) /\ BlockMeetsNormal(i, j)
           /\ ret[Pos(i) + 1] = <<>>

----------------------------------------------------------------------------
(* C5: trailing newline *)

\* C5: the output ends with exactly one newline, and is one newline for the
\* empty text.
C5_TrailingNewline ==
    Finished =>
        /\ out # <<>> /\ out[Len(out)] = NL
        /\ Len(out) >= 2 => out[Len(out) - 1] # NL
        /\ text = <<>> => out = <<NL>>

\* C5 witness: the last input line is a heading, which pushed an empty entry.
C5_Witness ==
    /\ Finished
    /\ line_states # <<>> /\ line_states[Len(line_states)] = "Title"
    /\ ret[Len(ret)] = <<>>

----------------------------------------------------------------------------
(* Reading the list lines *)

IsOrderedItem(l) == IsListItem(l) /\ CapOrdered(l)

\* the line k of result carries the number n before the item text of line k of ret
NumberedAs(k, n) ==
    Drop(result[k], LeadingWs(result[k]))
        = ToDecimal(n) \o <<".", SP>> \o CapContent(ret[k])

\* format_lists has just processed a line, the line k of ret
JustProcessed(k) == pc = "lists" /\ k = Len(result) /\ k > 0

----------------------------------------------------------------------------
(* C6: renumbering of ordered lists *)

\* p and q are ordered items of one indentation, with only list items between
\* them, none shallower and none of the other marker kind at that indentation
Linked(p, q) ==
    /\ p <= q
    /\ IsOrderedItem(ret[p]) /\ IsOrderedItem(ret[q])
    /\ CapIndent(ret[p]) = CapIndent(ret[q])
    /\ \A m \in p..q :
           /\ IsListItem(ret[m])
           /\ CapIndent(ret[m]) >= CapIndent(ret[p])
           /\ CapIndent(ret[m]) = CapIndent(ret[p]) => CapOrdered(ret[m])

\* p opens a list: it is the first line or follows a line that is no list item
RunStart(p) == p = 1 \/ ~IsListItem(ret[p - 1])

\* the position of q among the items of its indentation from p on
Rank(p, q) ==
    Cardinality({m \in p..q : CapIndent(ret[m]) = CapIndent(ret[p])})

\* C6: the ordered items at one indentation of an uninterrupted run, from the
\* item that opens the list on, are numbered 1, 2, 3, ... in input order.
C6_Renumbering ==
    \A p \in 1..Len(result) : \A q \in 1..Len(result) :
        (Linked(p, q) /\ RunStart(p)) => NumberedAs(q, Rank(p, q))

----------------------------------------------------------------------------
(* C7: canonical indentation *)

----------------------------------------------------------------------------
(* C8: an interruption resets the numbering *)

\* C8: after a line that is no list item the stack is empty, and a list item
\* right after such a line has no indentation and, if ordered, the number 1.
C8_InterruptionResets ==
    /\ \A k \in 1..Len(result) :
           (JustProcessed(k) /\ ~IsListItem(ret[k])) => list_stack = <<>>
    /\ \A k \in 2..Len(result) :
           (~IsListItem(ret[k - 1]) /\ IsListItem(ret[k])) =>
               /\ LeadingWs(result[k]) = 0
               /\ CapOrdered(ret[k]) => NumberedAs(k, 1)

\* C8 witness: an ordered item follows an interruption that follows a nested
\* ordered list, and is numbered 1.
C8_Witness ==
    \E k \in 4..Len(result) :
        /\ IsOrderedItem(ret[k]) /\ ~IsListItem(ret[k - 1])
        /\ \E m \in 2..(k - 2) :
               /\ IsOrderedItem(ret[m]) /\ IsOrderedItem(ret[m - 1])
               /\ LeadingWs(result[m]) > 0
        /\ NumberedAs(k, 1)

----------------------------------------------------------------------------
(* C9: the stack of the renumberer *)

\* the recorded indentations grow from the bottom, which records 0
ValidStack(stack) ==
    /\ stack[1].indent = 0
    /\ \A m \in 1..(Len(stack) - 1) : stack[m].indent < stack[m + 1].indent

\* C9: no unwrap of format_lists meets an empty stack; after a list item the
\* stack is not empty, its recorded indentations grow strictly from the bottom
\* and the bottom records 0.
C9_StackValid ==
    /\ ~unwrap_failed
    /\ list_stack # <<>> => ValidStack(list_stack)
    /\ \A k \in 1..Len(result) :
           (JustProcessed(k) /\ IsListItem(ret[k])) => list_stack # <<>>

\* C9 witness: an item shallower than the one before it popped a level and met
\* a level of its own indentation on a stack that is still two deep.
C9_Witness ==
    \E k \in 3..Len(result) :
        /\ JustProcessed(k)
        /\ IsListItem(ret[k]) /\ IsListItem(ret[k - 1])
        /\ CapIndent(ret[k]) < CapIndent(ret[k - 1])
        /\ Len(list_stack) = 2
        /\ ~unwrap_failed

----------------------------------------------------------------------------
(* C10: canonical markers *)

IsUnorderedMarker(m) == m \in {<<"*">>, <<"+">>, <<"-">>}

IsOrderedMarker(m) ==
    /\ Len(m) >= 2
    /\ m[Len(m)] = "."
    /\ \A i \in 1..(Len(m) - 1) : IsDigit(m[i])

\* o is the line l with its indentation replaced, its marker made canonical
\* (the counter being n) and the whitespace after the marker made one space
CanonicalOf(l, o, n) ==
    \E a \in 0..Len(l) : \E w \in 1..Len(l) : \E z \in 1..Len(l) :
        /\ a + w + z <= Len(l)
        /\ Take(l, a) = Spaces(a)
        /\ SubSeq(l, a + w + 1, a + w + z) = Spaces(z)
        /\ LET m == SubSeq(l, a + 1, a + w)
               c == Drop(l, a + w + z)
           IN  /\ IsUnorderedMarker(m) \/ IsOrderedMarker(m)
               /\ c = <<>> \/ ~IsWs(Head(c))
               /\ \E x \in 0..Len(o) :
                      o = Spaces(x)
                          \o (IF IsUnorderedMarker(m) THEN <<"-">>
                              ELSE ToDecimal(n) \o <<".">>)
                          \o <<SP>> \o c

\* C10: a list item is emitted as indentation, canonical marker ('-', or the
\* counter and a dot), one space and the item text unchanged; a line that is no
\* list item is passed through; there is one output line per input line.
C10_MarkerCanonical ==
    /\ Len(result) <= Len(ret)
    /\ pc \in {"tables", "newline", "done"} => Len(result) = Len(ret)
    /\ \A k \in 1..Len(result) : ~IsListItem(ret[k]) => result[k] = ret[k]
    /\ \A k \in 1..Len(result) :
           (JustProcessed(k) /\ IsListItem(ret[k]) /\ list_stack # <<>>) =>
               CanonicalOf(ret[k], result[k], Top(list_stack).counter)

\* C10 witness: a '+' item with two spaces after the marker was emitted as '- a'
\* under its indentation, after an item of the level above.
C10_Witness ==
    \E k \in 2..Len(result) :
        /\ JustProcessed(k)
        /\ ret[k] = <<SP, SP, "+", SP, SP, "a">>
        /\ result[k] = <<SP, SP, "-", SP, "a">>

----------------------------------------------------------------------------
(* C11: one counter for each level *)

\* the lines p..q of ret are list items and the list starts at p with an item
\* that is not indented
ListFromMargin(p, q) ==
    /\ p <= q
    /\ RunStart(p)
    /\ \A m \in p..q : IsListItem(ret[m])
    /\ CapIndent(ret[p]) = 0

\* the item q comes back to the level of the ordered item s: only deeper items
\* lie between them, and at least one
ReturnsTo(s, q) ==
    /\ s + 1 < q
    /\ IsOrderedItem(ret[s]) /\ IsOrderedItem(ret[q])
    /\ CapIndent(ret[s]) = CapIndent(ret[q])
    /\ \A m \in (s + 1)..(q - 1) : CapIndent(ret[m]) > CapIndent(ret[q])

\* C11: in a list whose first item is not indented, an ordered item that is
\* deeper than the item before it opens its level with the number 1, whatever
\* the counter of the parent level and also when the same sub-list was open
\* before, and an ordered item that comes back to a level that is still open
\* and ordered takes the number after the last one of that level
C11_CounterPerLevel ==
    \A p \in 1..Len(result) : \A q \in p..Len(result) :
        ListFromMargin(p, q) =>
            /\ (/\ q > p
                /\ IsOrderedItem(ret[q])
                /\ CapIndent(ret[q]) > CapIndent(ret[q - 1]))
                   => NumberedAs(q, 1)
            /\ \A s \in p..q :
                   ReturnsTo(s, q) =>
                       \E n \in 1..Len(result) :
                           NumberedAs(s, n) /\ NumberedAs(q, n + 1)

\* a sub-list is opened under the second item of its parent, the parent level
\* is taken up again with the next number, and a sub-list is opened once more
C11_Witness ==
    /\ pc = "tables"
    /\ Len(result) = 4
    /\ ListFromMargin(1, 4)
    /\ ReturnsTo(1, 3)
    /\ NumberedAs(1, 1) /\ NumberedAs(2, 1)
    /\ NumberedAs(3, 2) /\ NumberedAs(4, 1)
    /\ CapIndent(ret[4]) > CapIndent(ret[3])

----------------------------------------------------------------------------
(* C12: the blank line before a list *)

\* C12: in the output of format_lines a list item that opens the document is
\* the first line; one that follows a Normal, Table, CodeEnd or Blockquote line
\* or a heading is separated from it by exactly one empty line; and one that
\* follows a list item comes right after it
C12_BlankBeforeList ==
    \A j \in 1..Len(line_states) :
        line_states[j] = "List" =>
            /\ j = 1 => Pos(j) = 1
            /\ (j > 1 /\ line_states[j - 1]
                    \in {"Normal", "Table", "CodeEnd", "Blockquote", "Title"})
                   => /\ Pos(j) = Pos(j - 1) + 2
                      /\ ret[Pos(j - 1) + 1] = <<>>
            /\ (j > 1 /\ line_states[j - 1] = "List")
                   => Pos(j) = Pos(j - 1) + 1

\* a list of two items after a blockquote line has been laid out
C12_Witness ==
    /\ pc = "lists"
    /\ line_states = <<"Blockquote", "List", "List">>
    /\ Len(ret) = 4
    /\ ret[2] = <<>>

----------------------------------------------------------------------------
(* The inline spacer on its own: format_text applied to one line, pass by  *)
(* pass (main.rs:226-235), then one pass more of either substitution on    *)
(* its result.  text is the argument, out the local text, first_out the    *)
(* value returned.                                                         *)

\* characters per line, specification SpecSpans
MaxSpanLen == 8
\* characters per line, specification SpecCjk
MaxCjkLen == 6

\* a backtick, whitespace, another character
SpanChars == {BT, SP, "a"}
\* a Han character, an ASCII letter, a space, another character
CjkChars == {Han, "a", SP, "-"}

TextLines(chars, n) == UNION {[1..k -> chars] : k \in 0..n}

InitText(chars, n) ==
    /\ text \in TextLines(chars, n)
    /\ args_indent = DefaultIndent
    /\ pass = 1
    /\ first_out = <<>>
    /\ pc = "ft_cjk1"
    /\ lines = <<>>
    /\ ret = <<>>
    /\ prev_line_state = "Empty"
    /\ line_states = <<>>
    /\ origin = <<>>
    /\ result = <<>>
    /\ list_stack = <<>>
    /\ unwrap_failed = FALSE
    /\ out = <<>>
    /\ NoProcess

InitSpans == InitText(SpanChars, MaxSpanLen)
InitCjk == InitText(CjkChars, MaxCjkLen)

\* main.rs:227
TextCjk1 ==
    /\ pc = "ft_cjk1"
    /\ out' = add_spaces_between_cjk_ascii(text)
    /\ pc' = "ft_cjk2"
    /\ UNCHANGED <<text, pass, first_out, lines, ret, prev_line_state,
                   line_states, origin, result, list_stack, unwrap_failed,
                   args_indent, io>>

\* main.rs:229
TextCjk2 ==
    /\ pc = "ft_cjk2"
    /\ out' = add_spaces_between_cjk_ascii(out)
    /\ pc' = "ft_span1"
    /\ UNCHANGED <<text, pass, first_out, lines, ret, prev_line_state,
                   line_states, origin, result, list_stack, unwrap_failed,
                   args_indent, io>>

\* main.rs:231
TextSpan1 ==
    /\ pc = "ft_span1"
    /\ out' = add_space_around_code_spans(out)
    /\ pc' = "ft_span2"
    /\ UNCHANGED <<text, pass, first_out, lines, ret, prev_line_state,
                   line_states, origin, result, list_stack, unwrap_failed,
                   args_indent, io>>

\* main.rs:233-234
TextSpan2 ==
    /\ pc = "ft_span2"
    /\ out' = add_space_around_code_spans(out)
    /\ first_out' = out'
    /\ pc' = "ft_done"
    /\ UNCHANGED <<text, pass, lines, ret, prev_line_state, line_states,
                   origin, result, list_stack, unwrap_failed, args_indent, io>>

\* add_spaces_between_cjk_ascii once more, on what format_text returned
ThirdCjk ==
    /\ pc = "ft_done"
    /\ out' = add_spaces_between_cjk_ascii(first_out)
    /\ pc' = "third_cjk"
    /\ UNCHANGED <<text, pass, first_out, lines, ret, prev_line_state,
                   line_states, origin, result, list_stack, unwrap_failed,
                   args_indent, io>>

\* add_space_around_code_spans once more, on what format_text returned
ThirdSpan ==
    /\ pc = "ft_done"
    /\ out' = add_space_around_code_spans(first_out)
    /\ pc' = "third_span"
    /\ UNCHANGED <<text, pass, first_out, lines, ret, prev_line_state,
                   line_states, origin, result, list_stack, unwrap_failed,
                   args_indent, io>>

NextText ==
    \/ TextCjk1
    \/ TextCjk2
    \/ TextSpan1
    \/ TextSpan2
    \/ ThirdCjk
    \/ ThirdSpan

SpecSpans == InitSpans /\ [][NextText]_vars
SpecCjk == InitCjk /\ [][NextText]_vars

\* format_text has returned
TextDone == pc \in {"ft_done", "third_cjk", "third_span"}

----------------------------------------------------------------------------
(* C13: spaces around code spans *)

\* the number of backticks among the first k characters of s
CountBt(s, k) == Cardinality({i \in 1..k : s[i] = BT})

\* backticks are paired left to right: the odd ones open a span when a later
\* backtick closes it, the even ones close one
Opens(s, k) ==
    /\ s[k] = BT
    /\ CountBt(s, k - 1) % 2 = 0
    /\ CountBt(s, Len(s)) > CountBt(s, k)
Closes(s, k) == s[k] = BT /\ CountBt(s, k - 1) % 2 = 1

\* neither whitespace nor a backtick
IsOther(c) == c # SP /\ c # BT

\* a space is due after the character k of s: a span ends there and another
\* character follows, or the character is such a one and a span opens after it
SpaceDueAfter(s, k) ==
    /\ k < Len(s)
    /\ \/ Closes(s, k) /\ IsOther(s[k + 1])
       \/ IsOther(s[k]) /\ Opens(s, k + 1)

\* s with one space put in wherever one is due
RECURSIVE SpanSpacedFrom(_, _)
SpanSpacedFrom(s, k) ==
    IF k > Len(s) THEN <<>>
    ELSE <<s[k]>> \o (IF SpaceDueAfter(s, k) THEN <<SP>> ELSE <<>>)
                  \o SpanSpacedFrom(s, k + 1)
SpanSpaced(s) == SpanSpacedFrom(s, 1)

\* every span of s has whitespace, a backtick or an end of s on each side
SpansSeparated(s) ==
    \A k \in 1..Len(s) :
        /\ Opens(s, k) => (k = 1 \/ ~IsOther(s[k - 1]))
        /\ Closes(s, k) => (k = Len(s) \/ ~IsOther(s[k + 1]))

\* C13: what format_text returns for a line of backticks, spaces and other
\* characters is the line with one space put in at every place where a code
\* span touches another character, and nowhere else; every span of it has
\* whitespace, a backtick or an end of the line on each side; and
\* add_space_around_code_spans applied to it once more changes nothing
C13_CodeSpanFixedPoint ==
    /\ TextDone =>
           /\ first_out = format_text(text)
           /\ first_out = SpanSpaced(text)
           /\ SpansSeparated(first_out)
    /\ pc = "third_span" => out = first_out

\* three spans with one character between them: the first pass leaves the
\* second and the third span without the space before them
C13_Witness ==
    /\ pc = "third_span"
    /\ text = <<BT, BT, "a", BT, BT, "a", BT, BT>>
    /\ first_out = <<BT, BT, SP, "a", SP, BT, BT, SP, "a", SP, BT, BT>>
    /\ add_space_around_code_spans(text) # first_out

----------------------------------------------------------------------------
(* C14: spaces between Han characters and ASCII letters or digits *)

\* a Han character and an ASCII letter or digit, in either order
HanMeetsAscii(c, d) ==
    \/ c = Han /\ d \in {"a", "1"}
    \/ c \in {"a", "1"} /\ d = Han

\* s with one space put in between every Han character and the ASCII letter
\* or digit next to it
RECURSIVE CjkSpacedFrom(_, _)
CjkSpacedFrom(s, k) ==
    IF k > Len(s) THEN <<>>
    ELSE <<s[k]>>
         \o (IF k < Len(s) /\ HanMeetsAscii(s[k], s[k + 1]) THEN <<SP>> ELSE <<>>)
         \o CjkSpacedFrom(s, k + 1)
CjkSpaced(s) == CjkSpacedFrom(s, 1)

\* no Han character of s is next to an ASCII letter or digit
NoHanNextToAscii(s) ==
    \A k \in 1..(Len(s) - 1) : ~HanMeetsAscii(s[k], s[k + 1])

\* C14: what format_text returns for a line of Han characters, ASCII letters,
\* spaces and other characters is the line with exactly one space put in
\* between every Han character and the ASCII letter next to it, and nothing
\* else changed; no Han character of it is next to an ASCII letter; and
\* add_spaces_between_cjk_ascii applied to it once more changes nothing
C14_CjkFixedPoint ==
    /\ TextDone =>
           /\ first_out = format_text(text)
           /\ first_out = CjkSpaced(text)
           /\ NoHanNextToAscii(first_out)
    /\ pc = "third_cjk" => out = first_out

\* Han and ASCII alternate, so that the matches of one pass overlap and the
\* first pass leaves every second meeting place without its space
C14_Witness ==
    /\ pc = "third_cjk"
    /\ text = <<Han, "a", Han, "a", Han>>
    /\ first_out = <<Han, SP, "a", SP, Han, SP, "a", SP, Han>>
    /\ add_spaces_between_cjk_ascii(text) # first_out

----------------------------------------------------------------------------
(* C15: the text handed to the table formatter *)

\* in the lines of result, every run of lines classified Table has an empty
\* line or the start of the text before it and an empty line or the end of the
\* text after it
TablesIsolated ==
    \A k \in 1..Len(result) :
        OutState(k) = "Table" =>
            /\ k = 1 \/ OutState(k - 1) = "Table" \/ result[k - 1] = <<>>
            /\ k = Len(result) \/ OutState(k + 1) = "Table"
                  \/ result[k + 1] = <<>>

\* the text is handed over when format_lines has read every line and
\* format_lists every line of ret, and it is the lines of result joined
HandedOver ==
    /\ pc = "tables"
    /\ Len(line_states) = Len(lines)
    /\ Len(result) = Len(ret)
    /\ out = JoinNL(result)

C15_Step ==
    /\ pc' = "tables" => (pc = "lists" /\ HandedOver' /\ TablesIsolated')
    /\ pc = "tables" => (pc' = "newline" /\ out' = format_tables(out))
    /\ pc' = "newline" => pc = "tables"
    /\ pc' = "done" => pc = "newline"

\* C15: in every run of format_markdown the table formatter is called once,
\* on the joined output of format_lists after format_lines and format_lists
\* are through and before the text is made to end with a newline; and in the
\* text it is given every run of Table lines stands between empty lines or
\* the ends of the text, whatever lines are next to it in the input
C15_TableHandOff == [][C15_Step]_vars

\* a table line between a paragraph line and a list item is handed over with
\* an empty line on each side
C15_Witness ==
    /\ HandedOver
    /\ line_states = <<"Normal", "Table", "List">>
    /\ Len(result) = 5
    /\ result[2] = <<>> /\ result[4] = <<>>
    /\ OutState(3) = "Table"

----------------------------------------------------------------------------
(* The process, main.rs:33-52: read the input, call format_markdown, write *)
(* the output.  Opening, reading, creating and writing can fail; the `?`   *)
(* makes main return the error, and the process exits with code 1.         *)

\* lines per document, specification SpecMain
MaxMainLines == 2

\* what the output file holds before the run, when it exists
OldOutput == <<"x", NL>>

InitMain ==
    /\ text = <<>>
    /\ args_indent = DefaultIndent
    /\ pass = 1
    /\ first_out = <<>>
    /\ pc = "main_read"
    /\ lines = <<>>
    /\ ret = <<>>
    /\ prev_line_state = "Empty"
    /\ line_states = <<>>
    /\ origin = <<>>
    /\ result = <<>>
    /\ list_stack = <<>>
    /\ unwrap_failed = FALSE
    /\ out = <<>>
    /\ args_output \in {"Some", "None"}
    /\ out_file \in IF args_output = "Some" THEN {NoFile, FileOf(OldOutput)}
                    ELSE {FileOf(<<>>)}
    /\ out_before = out_file
    /\ exit_code = "running"

\* main.rs:37-41: the input is opened and read to its end
MainRead ==
    /\ pc = "main_read"
    /\ \E d \in Docs(Pool, MaxMainLines) : text' = JoinNL(d)
    /\ pc' = "split"
    /\ UNCHANGED <<pass, first_out, lines, ret, prev_line_state, line_states,
                   origin, result, list_stack, unwrap_failed, out, args_indent, io>>

\* main.rs:39-40: File::open or read_to_string returns an error
MainReadFails ==
    /\ pc = "main_read"
    /\ exit_code' = "failed"
    /\ pc' = "exit"
    /\ UNCHANGED <<text, pass, first_out, lines, ret, prev_line_state,
                   line_states, origin, result, list_stack, unwrap_failed, out,
                   args_indent, args_output, out_file, out_before>>

\* main.rs:48: File::create(path) makes the file or truncates the one there
MainCreate ==
    /\ pc = "done"
    /\ exit_code = "running"
    /\ args_output = "Some"
    /\ out_file' = FileOf(<<>>)
    /\ pc' = "main_write"
    /\ UNCHANGED <<text, pass, first_out, lines, ret, prev_line_state,
                   line_states, origin, result, list_stack, unwrap_failed, out,
                   args_indent, args_output, out_before, exit_code>>

\* main.rs:48: File::create(path) returns an error
MainCreateFails ==
    /\ pc = "done"
    /\ exit_code = "running"
    /\ args_output = "Some"
    /\ exit_code' = "failed"
    /\ pc' = "exit"
    /\ UNCHANGED <<text, pass, first_out, lines, ret, prev_line_state,
                   line_states, origin, result, list_stack, unwrap_failed, out,
                   args_indent, args_output, out_file, out_before>>

\* whether main is about to call write_all: on the file it created (48) or on
\* stdout (49)
AtWrite ==
    /\ exit_code = "running"
    /\ \/ pc = "main_write"
       \/ pc = "done" /\ args_output = "None"

\* main.rs:48-51: write_all writes every byte, main returns Ok(())
MainWrite ==
    /\ AtWrite
    /\ out_file' = FileOf(out_file.data \o out)
    /\ exit_code' = "ok"
    /\ pc' = "exit"
    /\ UNCHANGED <<text, pass, first_out, lines, ret, prev_line_state,
                   line_states, origin, result, list_stack, unwrap_failed, out,
                   args_indent, args_output, out_before>>

\* main.rs:48-49: write_all returns an error after some of the bytes, or none,
\* have been written
MainWriteFails ==
    /\ AtWrite
    /\ \E k \in 0..(Len(out) - 1) : out_file' = FileOf(out_file.data \o Take(out, k))
    /\ exit_code' = "failed"
    /\ pc' = "exit"
    /\ UNCHANGED <<text, pass, first_out, lines, ret, prev_line_state,
                   line_states, origin, result, list_stack, unwrap_failed, out,
                   args_indent, args_output, out_before>>

NextMain ==
    \/ MainRead
    \/ MainReadFails
    \/ NextOnce
    \/ MainCreate
    \/ MainCreateFails
    \/ MainWrite
    \/ MainWriteFails

SpecMain == InitMain /\ [][NextMain]_vars

----------------------------------------------------------------------------
(* C16: no partial output *)

\* C16: when the process has exited, either it exited with code 0 and the
\* output target holds the whole formatted text, or it exited with another
\* code and the output target is as it was before the run
C16_NoPartialOutput ==
    exit_code \in {"ok", "failed"} =>
        \/ exit_code = "ok" /\ out_file = FileOf(out)
        \/ exit_code = "failed" /\ out_file = out_before

----------------------------------------------------------------------------
(* C17: the fence *)

\* the line j lies in the fence opened by the line i: no line after i and
\* before j starts with three backticks
InFence(i, j) ==
    /\ i < j
    /\ line_states[i] = "CodeStart"
    /\ \A m \in (i + 1)..(j - 1) : ~StartsWith(lines[m], Fence)

\* ret holds the line j once, as it was read
EmittedRaw(j) ==
    /\ Cardinality({k \in 1..Len(origin) : origin[k] = j}) = 1
    /\ ret[Pos(j)] = lines[j]

\* C17: after a line classified CodeStart every line is classified Code,
\* whatever is in it, up to the first line that starts with three backticks,
\* which is CodeEnd; without such a line every line that is left is Code.
\* format_lines puts each line from CodeStart to CodeEnd into ret once and
\* unchanged, and each right after the one before it
C17_FenceStateMachine ==
    \A i \in 1..Len(line_states) : \A j \in i..Len(line_states) :
        /\ (i = j /\ line_states[i] = "CodeStart") => EmittedRaw(i)
        /\ InFence(i, j) =>
               /\ line_states[j] = IF StartsWith(lines[j], Fence)
                                   THEN "CodeEnd" ELSE "Code"
               /\ EmittedRaw(j)
               /\ Pos(j) = Pos(j - 1) + 1

\* a line that the inline spacer would change stands unchanged in a fence
C17_Witness ==
    /\ pc = "lists"
    /\ line_states = <<"CodeStart", "Code", "CodeEnd">>
    /\ lines[2] = <<"a", Han, "1">>
    /\ format_line(lines[2]) # lines[2]
    /\ ret = lines

----------------------------------------------------------------------------
(* C18: no empty line at the head *)

\* C18: once format_lines has read the first line of a document, the first
\* line of ret is that line, as its arm writes it (unchanged for a fence,
\* through format_line for every other kind), and it is not empty
C18_NoLeadingBlank ==
    Len(line_states) >= 1 =>
        /\ origin[1] = 1
        /\ ret[1] # <<>>
        /\ ret[1] = IF line_states[1] = "CodeStart" THEN lines[1]
                    ELSE format_line(lines[1])

\* a document that opens with a table line: the line is put out first although
\* a table line after a paragraph line gets an empty line before it
C18_Witness ==
    /\ pc = "lists"
    /\ line_states = <<"Table", "Normal", "Table">>
    /\ ret = << <<"|", "a", "|">>, <<>>, <<"a">>, <<>>, <<"|", "a", "|">> >>

----------------------------------------------------------------------------
(* C19: a change of marker kind at one level *)

\* the list item k has the indentation of the list item before it and the
\* other marker kind
KindChange(k) ==
    /\ k >= 2
    /\ IsListItem(ret[k - 1]) /\ IsListItem(ret[k])
    /\ CapIndent(ret[k]) = CapIndent(ret[k - 1])
    /\ CurrentListType(ret[k]) # CurrentListType(ret[k - 1])

\* C19: a list item with the indentation of the list item before it and the
\* other marker kind starts a new list in place of the level on top: it is
\* written with the indentation of the item before it (the stack is as deep as
\* it was), the level on top has its kind and the counter 1, and an ordered
\* item is numbered 1
C19_KindChangeRestarts ==
    \A k \in 1..Len(result) :
        KindChange(k) =>
            /\ LeadingWs(result[k]) = LeadingWs(result[k - 1])
            /\ IsOrderedItem(ret[k]) => NumberedAs(k, 1)
            /\ JustProcessed(k) =>
                   /\ list_stack # <<>>
                   /\ Top(list_stack).list_type = CurrentListType(ret[k])
                   /\ Top(list_stack).counter = 1

----------------------------------------------------------------------------
(* C20: siblings *)

\* p and q are list items of one source indentation in a run of list items,
\* with no shallower item between them
Siblings(p, q) ==
    /\ p < q
    /\ CapIndent(ret[p]) = CapIndent(ret[q])
    /\ \A m \in p..q :
           /\ IsListItem(ret[m])
           /\ CapIndent(ret[m]) >= CapIndent(ret[p])

\* none of the items of the indentation of p from p to q is of another marker
\* kind than p
OneKind(p, q) ==
    \A m \in p..q :
        CapIndent(ret[m]) = CapIndent(ret[p])
            => CurrentListType(ret[m]) = CurrentListType(ret[p])

\* the number of items of the indentation of p from p to q
SiblingCount(p, q) ==
    Cardinality({m \in p..q : CapIndent(ret[m]) = CapIndent(ret[p])})

\* C20: two list items of one source indentation with only list items between
\* them, none of them shallower, are written with the same indentation; and
\* when both are ordered and no item of that indentation between them is of
\* the other kind, the later one is numbered on from the earlier one, also
\* when the run starts with an indented item and a deeper sub-list lies
\* between the two
C20_SiblingsStay ==
    \A p \in 1..Len(result) : \A q \in p..Len(result) :
        Siblings(p, q) =>
            /\ LeadingWs(result[p]) = LeadingWs(result[q])
            /\ (IsOrderedItem(ret[p]) /\ OneKind(p, q)) =>
                   \E n \in 1..Len(result) :
                       /\ NumberedAs(p, n)
                       /\ NumberedAs(q, n + SiblingCount(p, q) - 1)

----------------------------------------------------------------------------
(* C21: the classifier and the renumberer *)

\* format_lists takes the line k of ret for a list item (main.rs:252)
TakenAsListItem(k) == IsListItem(ret[k])

\* C21: the lines of ret that format_lists takes for list items are the lines
\* that get_line_state classified List, and format_lists leaves every other
\* line as it is: a line in a fence that looks like a list item reaches the
\* output unchanged, and a Normal line that looks like one only after the
\* inline spacing is not handled as a list item
C21_ClassifierAgrees ==
    \A k \in 1..Len(result) :
        /\ TakenAsListItem(k) <=> OutState(k) = "List"
        /\ OutState(k) # "List" => result[k] = ret[k]

=============================================================================
